---------------------------- MODULE Spec2Model ----------------------------
(***************************************************************************)
(* A model of the in-memory code search reference implementation:          *)
(*   src/memory_grep.py     InMemoryCodebase (corpus construction, grep,    *)
(*                          grep_formatted, get_stats)                      *)
(*   src/curserve_client.py MemSearchClient (alloc_pid, ripgrep, close)     *)
(*   src/test_file_watch.py the file-watch scenario (edit, sleep, search)   *)
(*                                                                          *)
(* Text is modelled as Python models it: a bytes object is a sequence of    *)
(* byte values 0..255, a str is a sequence of code points.  Every string    *)
(* constant below is written as its code points, with the text beside it.   *)
(***************************************************************************)
EXTENDS Naturals, Integers, Sequences, FiniteSets, TLC

(***************************************************************************)
(* Bounds of the model.                                                     *)
(***************************************************************************)
\* largest max_results argument tried (0..MaxResults)
MaxResults == 2
\* number of filesystem mutations applied after construction
MaxFsEvents == 2
\* most files of the tree that cannot be opened / mapped
MaxUnreadable == 1
\* most request frames a client sends before the model stops it
MaxFrames == 2

(***************************************************************************)
(* Characters used by the code.                                             *)
(***************************************************************************)
LF == 10
CR == 13
DOT == 46
SLASH == 47
COLON == 58
REPLACEMENT == 65533

(***************************************************************************)
(* Generic sequence helpers.                                                *)
(***************************************************************************)
\* position of the first x in s, 0 when there is none
IndexOf(s, x) ==
    IF \E i \in 1..Len(s) : s[i] = x
    THEN CHOOSE i \in 1..Len(s) : s[i] = x /\ \A j \in 1..(i-1) : s[j] # x
    ELSE 0

\* position of the last x in s, 0 when there is none (str.rfind + 1)
LastIndexOf(s, x) ==
    IF \E i \in 1..Len(s) : s[i] = x
    THEN CHOOSE i \in 1..Len(s) : s[i] = x /\ \A j \in (i+1)..Len(s) : s[j] # x
    ELSE 0

\* needle in hay  (Python's substring test on str / bytes)
Contains(hay, needle) ==
    \E o \in 0..(Len(hay) - Len(needle)) :
        \A j \in 1..Len(needle) : hay[o + j] = needle[j]

StartsWith(s, p) == Len(p) <= Len(s) /\ SubSeq(s, 1, Len(p)) = p

\* s.split(sep) for a one-element separator: always at least one piece
RECURSIVE Split(_, _)
Split(s, sep) ==
    LET i == IndexOf(s, sep) IN
    IF i = 0 THEN << s >>
    ELSE << SubSeq(s, 1, i - 1) >> \o Split(SubSeq(s, i + 1, Len(s)), sep)

\* sep.join(parts)
RECURSIVE Join(_, _)
Join(parts, sep) ==
    IF Len(parts) = 0 THEN << >>
    ELSE IF Len(parts) = 1 THEN parts[1]
    ELSE parts[1] \o sep \o Join(Tail(parts), sep)

\* ASCII case folding: bytes.lower(), str.lower() and re.IGNORECASE on ASCII
Fold(c) == IF c >= 65 /\ c <= 90 THEN c + 32 ELSE c
Lower(s) == [i \in 1..Len(s) |-> Fold(s[i])]

\* the sequences over S that list every element exactly once
Perms(S) ==
    { s \in [1..Cardinality(S) -> S] : \A x \in S : \E i \in DOMAIN s : s[i] = x }

\* str(n) for n >= 0: the decimal digits as code points
RECURSIVE Str(_)
Str(n) == IF n < 10 THEN << 48 + n >> ELSE Str(n \div 10) \o << 48 + (n % 10) >>

(***************************************************************************)
(* pattern.encode("utf-8") and line.decode("utf-8", errors="replace").      *)
(* Encoding is the UTF-8 encoding of code points below 65536.  Decoding is  *)
(* given for the bytes the modelled files hold: ASCII bytes decode to       *)
(* themselves, and the byte 0xFF, which is valid nowhere in UTF-8, decodes  *)
(* to one U+FFFD.                                                           *)
(***************************************************************************)
EncodeChar(c) ==
    IF c < 128 THEN << c >>
    ELSE IF c < 2048 THEN << 192 + (c \div 64), 128 + (c % 64) >>
    ELSE << 224 + (c \div 4096), 128 + ((c \div 64) % 64), 128 + (c % 64) >>

RECURSIVE encode_utf8(_)
encode_utf8(s) ==
    IF Len(s) = 0 THEN << >> ELSE EncodeChar(Head(s)) \o encode_utf8(Tail(s))

decode_utf8_replace(b) ==
    [i \in 1..Len(b) |-> IF b[i] < 128 THEN b[i] ELSE REPLACEMENT]

\* (str.rstrip("\n"): only trailing LF dropped)
RECURSIVE rstrip_lf(_)
rstrip_lf(s) ==
    IF Len(s) > 0 /\ s[Len(s)] = LF
    THEN rstrip_lf(SubSeq(s, 1, Len(s) - 1))
    ELSE s

\* str.rstrip("\r\n"): drops every trailing CR and LF
RECURSIVE rstrip_crlf(_)
rstrip_crlf(s) ==
    IF Len(s) > 0 /\ s[Len(s)] \in {CR, LF}
    THEN rstrip_crlf(SubSeq(s, 1, Len(s) - 1))
    ELSE s

(***************************************************************************)
(* File classification: InMemoryCodebase._is_text_file and                  *)
(* _should_skip_directory.                                                  *)
(***************************************************************************)
text_extensions ==
    { <<46,112,121>>, <<46,106,115>>, <<46,116,115>>,   \* .py .js .ts
      <<46,106,115,120>>, <<46,116,115,120>>, <<46,106,97,118,97>>,   \* .jsx .tsx .java
      <<46,99>>, <<46,99,112,112>>, <<46,104>>,   \* .c .cpp .h
      <<46,104,112,112>>, <<46,103,111>>, <<46,114,115>>,   \* .hpp .go .rs
      <<46,114,98>>, <<46,112,104,112>>, <<46,99,115>>,   \* .rb .php .cs
      <<46,115,119,105,102,116>>, <<46,107,116>>, <<46,115,99,97,108,97>>,   \* .swift .kt .scala
      <<46,114>>, <<46,104,116,109,108>>, <<46,99,115,115>>,   \* .r .html .css
      <<46,115,99,115,115>>, <<46,115,97,115,115>>, <<46,108,101,115,115>>,   \* .scss .sass .less
      <<46,106,115,111,110>>, <<46,121,97,109,108>>, <<46,121,109,108>>,   \* .json .yaml .yml
      <<46,109,100>>, <<46,116,120,116>>, <<46,120,109,108>>,   \* .md .txt .xml
      <<46,115,113,108>>, <<46,115,104>>, <<46,98,97,115,104>>,   \* .sql .sh .bash
      <<46,122,115,104>>, <<46,102,105,115,104>>, <<46,116,111,109,108>>,   \* .zsh .fish .toml
      <<46,105,110,105>>, <<46,99,111,110,102>>, <<46,99,111,110,102,105,103>>,   \* .ini .conf .config
      <<46,101,110,118>>, <<46,112,114,111,116,111>>, <<46,103,114,97,112,104,113,108>>,   \* .env .proto .graphql
      <<46,118,117,101>>, <<46,115,118,101,108,116,101>>, <<46,101,108,109>>,   \* .vue .svelte .elm
      <<46,101,120>>, <<46,101,120,115>>, <<46,101,114,108>>,   \* .ex .exs .erl
      <<46,104,114,108>>, <<46,99,108,106>>, <<46,108,117,97>>,   \* .hrl .clj .lua
      <<46,112,108>>, <<46,112,109>>, <<46,114,97,107,117>>,   \* .pl .pm .raku
      <<46,118,105,109>>, <<46,101,108>>, <<46,108,105,115,112>>,   \* .vim .el .lisp
      <<46,115,99,109>>, <<46,103,114,97,100,108,101>>, <<46,112,114,111,112,101,114,116,105,101,115>>,   \* .scm .gradle .properties
      <<46,100,111,99,107,101,114,102,105,108,101>>, <<46,109,97,107,101,102,105,108,101>>, <<46,99,109,97,107,101>>   \* .dockerfile .makefile .cmake
    }

text_filenames ==
    { <<109,97,107,101,102,105,108,101>>, <<100,111,99,107,101,114,102,105,108,101>>, <<114,97,107,101,102,105,108,101>>,   \* makefile dockerfile rakefile
      <<103,101,109,102,105,108,101>>, <<112,114,111,99,102,105,108,101>>, <<114,101,97,100,109,101>>,   \* gemfile procfile readme
      <<108,105,99,101,110,115,101>>, <<99,104,97,110,103,101,108,111,103>>, <<99,111,110,116,114,105,98,117,116,105,110,103>>,   \* license changelog contributing
      <<97,117,116,104,111,114,115>>   \* authors
    }

skip_dirs ==
    { <<46,103,105,116>>, <<46,115,118,110>>, <<46,104,103>>,   \* .git .svn .hg
      <<46,98,122,114>>, <<110,111,100,101,95,109,111,100,117,108,101,115>>, <<98,111,119,101,114,95,99,111,109,112,111,110,101,110,116,115>>,   \* .bzr node_modules bower_components
      <<95,95,112,121,99,97,99,104,101,95,95>>, <<46,112,121,116,101,115,116,95,99,97,99,104,101>>, <<46,109,121,112,121,95,99,97,99,104,101>>,   \* __pycache__ .pytest_cache .mypy_cache
      <<118,101,110,118>>, <<46,118,101,110,118>>, <<101,110,118>>,   \* venv .venv env
      <<46,101,110,118>>, <<118,105,114,116,117,97,108,101,110,118>>, <<116,97,114,103,101,116>>,   \* .env virtualenv target
      <<98,117,105,108,100>>, <<100,105,115,116>>, <<111,117,116>>,   \* build dist out
      <<46,105,100,101,97>>, <<46,118,115,99,111,100,101>>, <<46,118,115>>,   \* .idea .vscode .vs
      <<99,111,118,101,114,97,103,101>>, <<46,99,111,118,101,114,97,103,101>>, <<104,116,109,108,99,111,118>>,   \* coverage .coverage htmlcov
      <<46,110,101,120,116>>, <<46,110,117,120,116>>, <<46,99,97,99,104,101>>,   \* .next .nuxt .cache
      <<118,101,110,100,111,114>>   \* vendor
    }


\* Path(filepath).name: the text after the last "/"
PathName(filepath) ==
    SubSeq(filepath, LastIndexOf(filepath, SLASH) + 1, Len(filepath))

\* Path(filepath).suffix: from the last "." of the name, unless that dot is
\* the first or the last character of the name
PathSuffix(filepath) ==
    LET name == PathName(filepath)
        i == LastIndexOf(name, DOT)
    IN IF 1 < i /\ i < Len(name) THEN SubSeq(name, i, Len(name)) ELSE << >>

_is_text_file(filepath) ==
    IF Lower(PathSuffix(filepath)) \in text_extensions
    THEN TRUE
    ELSE Lower(PathName(filepath)) \in text_filenames

_should_skip_directory(dirname) == dirname \in skip_dirs

(***************************************************************************)
(* The directory tree.  codebase_path is "/r"; the tree may hold            *)
(*   /r/b.txt  /r/README  /r/e.bin  /r/a/c.py  /r/a/out/d.txt               *)
(* A file on disk is a record [bytes, readable]; readable = FALSE is a file *)
(* whose open or mmap raises OSError.                                       *)
(***************************************************************************)
codebase_path == << 47,114 >>                                 \* /r
P_b      == << 47,114,47,98,46,116,120,116 >>                  \* /r/b.txt
P_readme == << 47,114,47,82,69,65,68,77,69 >>                  \* /r/README
P_e      == << 47,114,47,101,46,98,105,110 >>                  \* /r/e.bin
P_c      == << 47,114,47,97,47,99,46,112,121 >>                \* /r/a/c.py
P_d      == << 47,114,47,97,47,111,117,116,47,100,46,116,120,116 >>  \* /r/a/out/d.txt

FileUniverse == { P_b, P_readme, P_e, P_c, P_d }

\* file contents
K_empty == << >>                          \* ""
K_ab    == << 97,10,98,10 >>              \* "a\nb\n"
K_crlf  == << 65,13,10,98,255,97 >>       \* "A\r\nb\xffa"   (no trailing newline)
K_aa    == << 97,10,97,10 >>              \* "a\na\n"

Contents == { K_empty, K_ab, K_crlf, K_aa }

NoFile == [bytes |-> << >>, readable |-> FALSE, exists |-> FALSE]
OnDisk(b, r) == [bytes |-> b, readable |-> r, exists |-> TRUE]

Present(d) == { p \in FileUniverse : d[p].exists }

\* os.path.dirname
DirName(filepath) == SubSeq(filepath, 1, LastIndexOf(filepath, SLASH) - 1)

\* dir is filepath's directory or an ancestor of it
Under(filepath, dir) == StartsWith(filepath, dir \o << SLASH >>)

\* the directory names os.walk has to descend through, below top, to reach
\* filepath
DirsBelow(filepath, top) ==
    LET rel == SubSeq(filepath, Len(top) + 2, Len(filepath))
        comps == Split(rel, SLASH)
    IN { comps[i] : i \in 1..(Len(comps) - 1) }

\* The orders in which os.walk(top) (top-down) can come to the files of a
\* tree: os.scandir lists a directory in no particular order; a directory's
\* own files are handled before any of its subdirectories is entered, and a
\* subdirectory is finished before the next one is begun.
\* the directories strictly below top that lead to filepath
DirsAbove(filepath, top) ==
    { SubSeq(filepath, 1, i - 1) :
        i \in { j \in (Len(top) + 2)..Len(filepath) : filepath[j] = SLASH } }

WalkOrders(d) ==
    { s \in Perms(Present(d)) :
        /\ \A i, j \in DOMAIN s :
              (i < j) => ~ (/\ Under(s[i], DirName(s[j]))
                            /\ DirName(s[i]) # DirName(s[j]))
        /\ \A i, j, k \in DOMAIN s :
              \A D \in DirsAbove(s[i], codebase_path) :
                 (i < j /\ j < k /\ Under(s[k], D)) => Under(s[j], D) }

(***************************************************************************)
(* Corpus construction: InMemoryCodebase._load_codebase and _mmap_file.     *)
(* self.files and self.file_sizes are dicts; a dict keeps its keys in the   *)
(* order they were first inserted, so each is a sequence of (key, value)    *)
(* pairs.  The value of self.files is what the mapping reads: its bytes.    *)
(***************************************************************************)
DictSet(dict, key, value) ==
    IF \E i \in DOMAIN dict : dict[i][1] = key
    THEN [i \in DOMAIN dict |-> IF dict[i][1] = key THEN << key, value >> ELSE dict[i]]
    ELSE Append(dict, << key, value >>)

Keys(dict) == { dict[i][1] : i \in DOMAIN dict }

\* (_mmap_file without its test for an empty file)
_mmap_file_MapsEmpty(cb, d, filepath) ==
    IF ~ d[filepath].exists \/ ~ d[filepath].readable
    THEN [cb EXCEPT !.raised = TRUE]
    ELSE [files      |-> DictSet(cb.files, filepath, d[filepath].bytes),
          file_sizes |-> DictSet(cb.file_sizes, filepath, Len(d[filepath].bytes)),
          raised     |-> FALSE]

\* (the size recorded as soon as it is known, before the file is opened)
_mmap_file_SizeFirst(cb, d, filepath) ==
    IF ~ d[filepath].exists
    THEN [cb EXCEPT !.raised = TRUE]
    ELSE LET size == Len(d[filepath].bytes) IN
         IF size = 0 THEN [cb EXCEPT !.raised = FALSE]
         ELSE IF ~ d[filepath].readable
         THEN [files      |-> cb.files,
               file_sizes |-> DictSet(cb.file_sizes, filepath, size),
               raised     |-> TRUE]
         ELSE [files      |-> DictSet(cb.files, filepath, d[filepath].bytes),
               file_sizes |-> DictSet(cb.file_sizes, filepath, size),
               raised     |-> FALSE]

\* _mmap_file on a codebase cb = [files, file_sizes]: "raised" is the
\* exception the caller catches
_mmap_file(cb, d, filepath) ==
    IF ~ d[filepath].exists
    THEN [cb EXCEPT !.raised = TRUE]                \* os.path.getsize raises
    ELSE LET size == Len(d[filepath].bytes) IN
         IF size = 0 THEN [cb EXCEPT !.raised = FALSE]
         ELSE IF ~ d[filepath].readable
         THEN [cb EXCEPT !.raised = TRUE]           \* open / mmap raises
         ELSE [files      |-> DictSet(cb.files, filepath, d[filepath].bytes),
               file_sizes |-> DictSet(cb.file_sizes, filepath, size),
               raised     |-> FALSE]

\* (pruning only among the directories of the root itself)
PrunedFromWalk_RootOnly(filepath) ==
    \E dirname \in DirsBelow(filepath, codebase_path) :
        /\ _should_skip_directory(dirname)
        /\ StartsWith(filepath, codebase_path \o << SLASH >> \o dirname \o << SLASH >>)

\* dirs[:] = [d for d in dirs if not self._should_skip_directory(d)]:
\* os.walk never enters a pruned directory, so it never yields a file below
PrunedFromWalk(filepath) ==
    \E dirname \in DirsBelow(filepath, codebase_path) : _should_skip_directory(dirname)

\* the body of the loop over one yielded file
LoadOne(cb, d, filepath) ==
    IF ~ _is_text_file(filepath) THEN cb
    ELSE LET r == _mmap_file(cb, d, filepath) IN
         [r EXCEPT !.raised = FALSE]                \* except Exception: print

\* (the walk given up at the first file that cannot be mapped)
RECURSIVE LoadFrom_StopAtFailure(_, _, _, _)
LoadFrom_StopAtFailure(cb, d, order, i) ==
    IF i > Len(order) THEN cb
    ELSE IF PrunedFromWalk(order[i])
    THEN LoadFrom_StopAtFailure(cb, d, order, i + 1)
    ELSE IF _is_text_file(order[i]) /\ _mmap_file(cb, d, order[i]).raised
    THEN cb
    ELSE LoadFrom_StopAtFailure(LoadOne(cb, d, order[i]), d, order, i + 1)

RECURSIVE LoadFrom(_, _, _, _)
LoadFrom(cb, d, order, i) ==
    IF i > Len(order) THEN cb
    ELSE IF PrunedFromWalk(order[i]) THEN LoadFrom(cb, d, order, i + 1)
    ELSE LoadFrom(LoadOne(cb, d, order[i]), d, order, i + 1)

EmptyCodebase == [files |-> << >>, file_sizes |-> << >>, raised |-> FALSE]

_load_codebase(d, order) == LoadFrom(EmptyCodebase, d, order, 1)

(***************************************************************************)
(* re.compile(pattern.encode("utf-8"), flags) and regex.search(line), for   *)
(* patterns built from literal bytes, "." and parentheses.  A pattern whose *)
(* parentheses do not balance raises re.error; "." matches every byte but   *)
(* LF; under re.IGNORECASE a literal matches either case of an ASCII        *)
(* letter.  A compiled regex is [error, atoms, ignorecase].                 *)
(***************************************************************************)
RECURSIVE ParensBalance(_, _, _)
ParensBalance(pat, i, depth) ==
    IF i > Len(pat) THEN depth = 0
    ELSE IF pat[i] = 40 THEN ParensBalance(pat, i + 1, depth + 1)
    ELSE IF pat[i] = 41 THEN depth > 0 /\ ParensBalance(pat, i + 1, depth - 1)
    ELSE ParensBalance(pat, i + 1, depth)

IsParen(c) == c = 40 \/ c = 41

re_compile(pat, ignorecase) ==
    IF ParensBalance(pat, 1, 0)
    THEN [error |-> FALSE, atoms |-> SelectSeq(pat, LAMBDA c : ~ IsParen(c)),
          ignorecase |-> ignorecase]
    ELSE [error |-> TRUE, atoms |-> << >>, ignorecase |-> ignorecase]

AtomMatches(atom, byte, ignorecase) ==
    IF atom = DOT THEN byte # LF
    ELSE IF ignorecase THEN Fold(atom) = Fold(byte)
    ELSE atom = byte

regex_search(regex, line) ==
    \E o \in 0..(Len(line) - Len(regex.atoms)) :
        \A j \in 1..Len(regex.atoms) :
            AtomMatches(regex.atoms[j], line[o + j], regex.ignorecase)

(***************************************************************************)
(* InMemoryCodebase.grep.  A path_filter is << >> for None and << s >> for  *)
(* the string s; a match is << filepath, line_num, line_str >>.             *)
(***************************************************************************)
None == << >>
Some(s) == << s >>

\* (the filter taken as a prefix of the path)
FilteredOut_PrefixOnly(path_filter, filepath) ==
    /\ path_filter # None
    /\ Len(path_filter[1]) > 0
    /\ ~ StartsWith(filepath, path_filter[1])

\* if path_filter and path_filter not in filepath: continue
FilteredOut(path_filter, filepath) ==
    /\ path_filter # None
    /\ Len(path_filter[1]) > 0
    /\ ~ Contains(filepath, path_filter[1])

\* (the limit test with > for >=)
HitLimit_Strict(results, max_results) == Len(results) > max_results

\* len(results) >= max_results
HitLimit(results, max_results) == Len(results) >= max_results

\* (the tuple with line numbers counted from 0)
MatchTuple_ZeroBased(filepath, line_num, line) ==
    << filepath, line_num - 1, rstrip_crlf(decode_utf8_replace(line)) >>

\* (filepath, line_num, line.decode("utf-8", errors="replace").rstrip("\r\n"))
MatchTuple(filepath, line_num, line) ==
    << filepath, line_num, rstrip_crlf(decode_utf8_replace(line)) >>

\* for line_num, line in enumerate(lines, start=1): ...
RECURSIVE ScanLines(_, _, _, _, _, _)
ScanLines(filepath, lines, line_num, regex, max_results, results) ==
    IF line_num > Len(lines) THEN results
    ELSE IF regex_search(regex, lines[line_num])
    THEN LET appended == Append(results, MatchTuple(filepath, line_num, lines[line_num]))
         IN IF HitLimit(appended, max_results)
            THEN appended                                           \* break
            ELSE ScanLines(filepath, lines, line_num + 1, regex, max_results, appended)
    ELSE ScanLines(filepath, lines, line_num + 1, regex, max_results, results)

\* (the file loop without its test of the limit)
RECURSIVE ScanFiles_NoBreak(_, _, _, _, _, _)
ScanFiles_NoBreak(fs, i, regex, path_filter, max_results, results) ==
    IF i > Len(fs) THEN results
    ELSE IF FilteredOut(path_filter, fs[i][1])
    THEN ScanFiles_NoBreak(fs, i + 1, regex, path_filter, max_results, results)
    ELSE ScanFiles_NoBreak(fs, i + 1, regex, path_filter, max_results,
                           ScanLines(fs[i][1], Split(fs[i][2], LF), 1, regex,
                                     max_results, results))

\* for filepath, mmap_obj in self.files.items(): ...
RECURSIVE ScanFiles(_, _, _, _, _, _)
ScanFiles(fs, i, regex, path_filter, max_results, results) ==
    IF i > Len(fs) THEN results
    ELSE IF FilteredOut(path_filter, fs[i][1])
    THEN ScanFiles(fs, i + 1, regex, path_filter, max_results, results)   \* continue
    ELSE IF HitLimit(results, max_results) THEN results                  \* break
    ELSE ScanFiles(fs, i + 1, regex, path_filter, max_results,
                   ScanLines(fs[i][1], Split(fs[i][2], LF), 1, regex,
                             max_results, results))

\* (the search with the path filter left out)
grep_NoFilter(fs, pattern, path_filter, max_results, case_sensitive) ==
    LET regex == re_compile(encode_utf8(pattern), ~ case_sensitive) IN
    IF regex.error THEN << >>
    ELSE ScanFiles(fs, 1, regex, None, max_results, << >>)

grep(fs, pattern, path_filter, max_results, case_sensitive) ==
    LET regex == re_compile(encode_utf8(pattern), ~ case_sensitive) IN
    IF regex.error THEN << >>                       \* except re.error: return []
    ELSE ScanFiles(fs, 1, regex, path_filter, max_results, << >>)

(***************************************************************************)
(* InMemoryCodebase.grep_formatted.                                         *)
(***************************************************************************)
S_NoMatches == << 78,111,32,109,97,116,99,104,101,115,32,102,111,117,110,100,
                  32,102,111,114,32,112,97,116,116,101,114,110,58,32 >>
                                          \* "No matches found for pattern: "
S_Found     == << 10,45,45,45,32,70,111,117,110,100,32 >>    \* "\n--- Found "
S_Matches   == << 32,109,97,116,99,104,101,115 >>            \* " matches"
S_Limited   == << 32,40,108,105,109,105,116,101,100,32,116,111,32,102,105,
                  114,115,116,32 >>                          \* " (limited to first "
S_Close     == << 41 >>                                      \* ")"
S_End       == << 32,45,45,45 >>                             \* " ---"
S_UpDir     == << 46,46 >>                                   \* ".."

\* the non-empty components of a path
PathParts(path) == SelectSeq(Split(path, SLASH), LAMBDA c : Len(c) > 0)

\* length of the longest common prefix of two sequences
RECURSIVE CommonLen(_, _)
CommonLen(a, b) ==
    IF Len(a) = 0 \/ Len(b) = 0 \/ Head(a) # Head(b) THEN 0
    ELSE 1 + CommonLen(Tail(a), Tail(b))

\* (the path left as it is)
relpath_Absolute(path, start) == path

\* os.path.relpath(path, start) for absolute, normalised POSIX paths
relpath(path, start) ==
    LET pp == PathParts(path)
        sp == PathParts(start)
        i  == CommonLen(pp, sp)
        rel == [k \in 1..(Len(sp) - i) |-> S_UpDir] \o SubSeq(pp, i + 1, Len(pp))
    IN IF Len(rel) = 0 THEN << DOT >> ELSE Join(rel, << SLASH >>)

\* f"{rel_path}:{line_num}:{content}"
FormatMatch(m) ==
    relpath(m[1], codebase_path) \o << COLON >> \o Str(m[2]) \o << COLON >> \o m[3]

\* len(results) == max_results
SummaryIsLimited(results, max_results) == Len(results) = max_results

Summary(results, max_results) ==
    S_Found \o Str(Len(results)) \o S_Matches
      \o (IF SummaryIsLimited(results, max_results)
          THEN S_Limited \o Str(max_results) \o S_Close ELSE << >>)
      \o S_End

\* grep_formatted has no case_sensitive parameter: it calls
\* self.grep(pattern, path_filter, max_results), case_sensitive = True
grep_formatted(fs, pattern, path_filter, max_results) ==
    LET results == grep(fs, pattern, path_filter, max_results, TRUE) IN
    IF Len(results) = 0 THEN S_NoMatches \o pattern
    ELSE Join([i \in 1..Len(results) |-> FormatMatch(results[i])], << LF >>)
           \o Summary(results, max_results)

(***************************************************************************)
(* State.                                                                   *)
(***************************************************************************)
VARIABLES
    disk,        \* the directory tree: FileUniverse -> file record
    files,       \* InMemoryCodebase.files: (filepath, mapped bytes) pairs
    file_sizes,  \* InMemoryCodebase.file_sizes: (filepath, size) pairs
    unlinked,    \* mapped paths whose mapped inode has since been unlinked
    clock,       \* seconds slept since the tree was last changed
    fs_events,   \* number of changes made to the tree since construction
    last         \* the call just made with what it returned, NoCall between calls

\* The bytes of the response connection, for the byte-level model of
\* _receive_response further down.
VARIABLES
    wire,        \* bytes the service has written that recv has not returned yet
    buffer       \* the local variable buffer of _receive_response

\* (these two ride in both tuples below, so that every action which says
\* UNCHANGED cbvars or UNCHANGED cvars leaves them as they are)
rvars == << wire, buffer >>

cbvars == << disk, files, file_sizes, unlinked, clock, fs_events, last, rvars >>

\* max_results default of grep_formatted
DefaultFormattedMax == 100
\* time.sleep(2) between an edit and the next search
PropagationWindow == 2

\* a quotient of two ints, as Python's true division gives it
Quotient(num, den) == << num, den >>

NoStats ==
    [num_files |-> 0, total_size_bytes |-> 0, total_size_mb |-> Quotient(0, 1),
     avg_file_size_kb |-> Quotient(0, 1)]

NoCall ==
    [op |-> "none", pattern |-> << >>, path_filter |-> None, max_results |-> 0,
     case_sensitive |-> TRUE, results |-> << >>, text |-> << >>,
     status |-> 1, waited |-> FALSE, scan_pos |-> 0, scan_disks |-> {},
     stats |-> NoStats]
\* status: 1 when the call returned a value (for a request, the response's
\* response_status), 0 when it ended in an error
\* scan_pos: while grep's loop over self.files.items() runs, the index of
\* the entry it takes next; scan_disks: the trees there have been since the
\* loop began

\* the inputs tried
P_a       == << 97 >>            \* "a"
P_a_dot   == << 97,46 >>         \* "a."
P_empty   == << >>               \* ""
P_open    == << 40 >>            \* "("      does not compile
P_a_lf_b  == << 97,10,98 >>      \* "a\nb"   spans a line break
Patterns  == { P_a, P_a_dot, P_empty, P_open, P_a_lf_b }

F_a_dir   == << 47,97,47 >>      \* "/a/"
F_r       == << 114 >>           \* "r"      part of codebase_path itself
PathFilters == { None, Some(F_a_dir), Some(F_r) }

(***************************************************************************)
(* Construction: InMemoryCodebase.__init__ over a tree.                     *)
(***************************************************************************)
FileChoices(p) ==
    IF p \in {P_b, P_c}
    THEN {NoFile, OnDisk(K_ab, FALSE)} \cup { OnDisk(k, TRUE) : k \in Contents }
    ELSE IF p = P_readme THEN {NoFile, OnDisk(K_ab, TRUE)}
    ELSE {OnDisk(K_ab, TRUE)}

Unreadable(d) == { p \in FileUniverse : d[p].exists /\ ~ d[p].readable }

Trees ==
    { d \in [FileUniverse -> UNION { FileChoices(p) : p \in FileUniverse }] :
        /\ \A p \in FileUniverse : d[p] \in FileChoices(p)
        /\ Cardinality(Unreadable(d)) <= MaxUnreadable }

Constructed(d, order) ==
    LET cb == _load_codebase(d, order) IN
    /\ disk = d
    /\ files = cb.files
    /\ file_sizes = cb.file_sizes
    /\ unlinked = {}
    /\ clock = 0
    /\ fs_events = 0
    /\ last = NoCall

(***************************************************************************)
(* MemSearchClient (curserve_client.py) and the service it talks to.        *)
(* A socket attribute is "None", "unconnected" (the socket object exists,   *)
(* connect has not succeeded) or "connected".  The file at                  *)
(* response_socket_path is "absent", "stale" (left by an earlier run, with  *)
(* nobody listening) or "listening" (bound by the service).                 *)
(***************************************************************************)
VARIABLES
    _allocated,      \* self._allocated
    request_socket,   \* self.request_socket
    response_socket,  \* self.response_socket
    c_pc,             \* where the client is inside a call, "idle" between calls
    c_retry,          \* i of the loop in _setup_response_socket
    c_sent,           \* request frames the client has sent
    c_out,            \* the call the client made last and how it ended
    sock_file,        \* the file at response_socket_path
    service_up,       \* the service listens on the request socket
    svc_inbox,        \* request frames sent and not yet read by the service
    svc_pending,      \* the service owes the answer to an alloc_pid
    resp_chan,        \* response frames written and not yet received
    resp_eof          \* the service has closed the response connection

cvars == << _allocated, request_socket, response_socket, c_pc, c_retry, c_sent,
            c_out, sock_file, service_up, svc_inbox, svc_pending, resp_chan,
            resp_eof, rvars >>

max_retries == 10

Outcome(call, result) == [call |-> call, result |-> result]

\* MemSearchClient.__init__
ClientConstructed ==
    /\ _allocated = FALSE
    /\ request_socket = "None"
    /\ response_socket = "None"
    /\ c_pc = "idle"
    /\ c_retry = 0
    /\ c_sent = 0
    /\ c_out = Outcome("__init__", "ok")
    /\ svc_inbox = << >>
    /\ svc_pending = FALSE
    /\ resp_chan = << >>
    /\ resp_eof = FALSE
    /\ wire = << >>
    /\ buffer = << >>

\* a client whose alloc_pid has returned: the state the searches start from
ClientBound ==
    /\ _allocated = TRUE
    /\ request_socket = "connected"
    /\ response_socket = "connected"
    /\ c_pc = "idle"
    /\ c_retry = 0
    /\ c_sent = 1
    /\ c_out = Outcome("alloc_pid", "ok")
    /\ sock_file = "listening"
    /\ service_up = TRUE
    /\ svc_inbox = << >>
    /\ svc_pending = FALSE
    /\ resp_chan = << >>
    /\ resp_eof = FALSE
    /\ wire = << >>
    /\ buffer = << >>


(***************************************************************************)
(* Calls on the codebase.                                                   *)
(***************************************************************************)
Grep(pattern, path_filter, max_results, case_sensitive) ==
    /\ last.op = "none"
    /\ last' = [NoCall EXCEPT
                  !.op = "grep", !.pattern = pattern, !.path_filter = path_filter,
                  !.max_results = max_results, !.case_sensitive = case_sensitive,
                  !.results = grep(files, pattern, path_filter, max_results,
                                   case_sensitive)]
    /\ UNCHANGED << disk, files, file_sizes, unlinked, clock, fs_events >>
    /\ UNCHANGED cvars

GrepFormatted(pattern, path_filter, max_results) ==
    /\ last.op = "none"
    /\ last' = [NoCall EXCEPT
                  !.op = "grep_formatted", !.pattern = pattern,
                  !.path_filter = path_filter, !.max_results = max_results,
                  !.text = grep_formatted(files, pattern, path_filter, max_results)]
    /\ UNCHANGED << disk, files, file_sizes, unlinked, clock, fs_events >>
    /\ UNCHANGED cvars

\* The service's handling of a request_ripgrep frame of a bound client: the
\* formatted search with its default max_results, returned as the text of
\* a status-1 response.
HandleRipgrep(fs, pattern, case_sensitive) ==
    [response_status |-> 1,
     text |-> grep_formatted(fs, pattern, None, DefaultFormattedMax)]

\* MemSearchClient.ripgrep of a bound client, request to returned text
RequestRipgrep(pattern, case_sensitive) ==
    LET response == HandleRipgrep(files, pattern, case_sensitive) IN
    /\ last.op = "none"
    /\ last' = [NoCall EXCEPT
                  !.op = "ripgrep", !.pattern = pattern,
                  !.max_results = DefaultFormattedMax,
                  !.case_sensitive = case_sensitive,
                  !.status = response.response_status,
                  !.text = response.text,
                  !.waited = (clock = PropagationWindow)]
    /\ UNCHANGED << disk, files, file_sizes, unlinked, clock, fs_events >>
    /\ UNCHANGED cvars

\* sum(self.file_sizes.values())
RECURSIVE SumValues(_, _)
SumValues(dict, i) ==
    IF i > Len(dict) THEN 0 ELSE dict[i][2] + SumValues(dict, i + 1)

\* get_stats: the dict it returns
get_stats(fs, sizes) ==
    LET total_size == SumValues(sizes, 1) IN
    [num_files        |-> Len(fs),
     total_size_bytes |-> total_size,
     total_size_mb    |-> Quotient(total_size, 1024 * 1024),
     avg_file_size_kb |-> IF Len(fs) # 0
                          THEN Quotient(total_size, Len(fs) * 1024)
                          ELSE Quotient(0, 1)]

GetStats ==
    /\ last.op = "none"
    /\ last' = [NoCall EXCEPT !.op = "get_stats",
                               !.stats = get_stats(files, file_sizes)]
    /\ UNCHANGED << disk, files, file_sizes, unlinked, clock, fs_events >>
    /\ UNCHANGED cvars

\* the caller takes what the call returned
Return ==
    /\ last.op # "none"
    /\ last' = NoCall
    /\ UNCHANGED << disk, files, file_sizes, unlinked, clock, fs_events >>
    /\ UNCHANGED cvars

(***************************************************************************)
(* The search specification: a constructed codebase and the calls on it.    *)
(***************************************************************************)
Init ==
    /\ \E d \in Trees : \E order \in WalkOrders(d) : Constructed(d, order)
    /\ ClientBound

Next ==
    \/ \E p \in Patterns, f \in PathFilters, k \in 0..MaxResults, cs \in BOOLEAN :
          Grep(p, f, k, cs)
    \/ \E p \in Patterns, f \in PathFilters, k \in 0..MaxResults :
          GrepFormatted(p, f, k)
    \/ \E p \in Patterns, cs \in BOOLEAN : RequestRipgrep(p, cs)
    \/ GetStats
    \/ Return

vars == << cbvars, cvars >>

Spec == Init /\ [][Next]_vars

(***************************************************************************)
(* The file-watch scenario of test_file_watch.py: after construction the    *)
(* tree is edited (Path.write_text, Path.unlink), the test sleeps, and the  *)
(* client searches again.  The codebase has no code that runs on an edit:   *)
(* self.files changes only in _mmap_file, which only construction calls.    *)
(* What an edit does reach is a mapping's bytes: mmap.mmap(fileno, 0,       *)
(* access=ACCESS_READ) maps the file shared, write_text rewrites the same   *)
(* inode in place, and the mapping keeps its length; an unlinked inode      *)
(* stays mapped and is no longer the file at that path.                     *)
(***************************************************************************)
WriteContents == { K_aa, K_crlf }
WatchPatterns == { P_a, P_empty }

\* the bytes a mapping of length size shows of an inode now holding bytes
MappedView(bytes, size) ==
    [i \in 1..size |-> IF i <= Len(bytes) THEN bytes[i] ELSE 0]

StillMapped(p) == p \in Keys(files) /\ p \notin unlinked /\ disk[p].exists

\* Path.write_text: creates the file, or truncates and rewrites it
FsWrite(p, bytes) ==
    /\ last.op = "none"
    /\ fs_events < MaxFsEvents
    /\ disk' = [disk EXCEPT ![p] =
                  OnDisk(bytes, IF disk[p].exists THEN disk[p].readable ELSE TRUE)]
    /\ files' = IF StillMapped(p)
                THEN [i \in DOMAIN files |->
                        IF files[i][1] = p
                        THEN << p, MappedView(bytes, Len(files[i][2])) >>
                        ELSE files[i]]
                ELSE files
    /\ fs_events' = fs_events + 1
    /\ clock' = 0
    /\ last' = NoCall
    /\ UNCHANGED << file_sizes, unlinked >>
    /\ UNCHANGED cvars

\* Path.unlink
FsUnlink(p) ==
    /\ last.op = "none"
    /\ fs_events < MaxFsEvents
    /\ disk[p].exists
    /\ disk' = [disk EXCEPT ![p] = NoFile]
    /\ unlinked' = IF p \in Keys(files) THEN unlinked \cup {p} ELSE unlinked
    /\ fs_events' = fs_events + 1
    /\ clock' = 0
    /\ last' = NoCall
    /\ UNCHANGED << files, file_sizes >>
    /\ UNCHANGED cvars

\* time.sleep between an edit and the next search, one second a step
Sleep ==
    /\ last.op = "none"
    /\ clock < PropagationWindow
    /\ clock' = clock + 1
    /\ last' = NoCall
    /\ UNCHANGED << disk, files, file_sizes, unlinked, fs_events >>
    /\ UNCHANGED cvars

WatchTrees ==
    { d \in Trees :
        /\ d[P_b] = OnDisk(K_ab, TRUE)
        /\ d[P_c] \in {NoFile, OnDisk(K_aa, TRUE)}
        /\ d[P_readme] = NoFile }

WatchInit ==
    /\ \E d \in WatchTrees : \E order \in WalkOrders(d) : Constructed(d, order)
    /\ ClientBound

WatchNext ==
    \/ \E p \in FileUniverse, bytes \in WriteContents : FsWrite(p, bytes)
    \/ \E p \in FileUniverse : FsUnlink(p)
    \/ Sleep
    \/ \E p \in WatchPatterns, cs \in BOOLEAN : RequestRipgrep(p, cs)
    \/ Return

WatchSpec == WatchInit /\ [][WatchNext]_vars

(***************************************************************************)
(* A search that overlaps edits of the tree.  grep is one call, but its     *)
(* loop takes the entries of self.files one after the other and reads an    *)
(* entry's bytes (mmap_obj[:]) only when it reaches it; another process can *)
(* edit the tree between two iterations.  One step here is one iteration    *)
(* of "for filepath, mmap_obj in self.files.items()".                       *)
(***************************************************************************)
\* max_results default of grep
DefaultMaxResults == 1000

\* the body of the loop for entry i; "broke" is the break of line 229
ScanOneFile(fs, i, regex, path_filter, max_results, results) ==
    IF FilteredOut(path_filter, fs[i][1])
    THEN [results |-> results, broke |-> FALSE]                    \* continue
    ELSE IF HitLimit(results, max_results)
    THEN [results |-> results, broke |-> TRUE]                     \* break
    ELSE [results |-> ScanLines(fs[i][1], Split(fs[i][2], LF), 1, regex,
                                max_results, results),
          broke   |-> FALSE]

\* grep up to the first iteration of the loop over the files
ScanBegin(pattern, case_sensitive) ==
    /\ last.op = "none"
    /\ fs_events = 0
    /\ last' = [NoCall EXCEPT
                  !.op = IF re_compile(encode_utf8(pattern), ~ case_sensitive).error
                         THEN "scanned" ELSE "scanning",
                  !.pattern = pattern, !.max_results = DefaultMaxResults,
                  !.case_sensitive = case_sensitive,
                  !.scan_pos = 1, !.scan_disks = {disk}]
    /\ UNCHANGED << disk, files, file_sizes, unlinked, clock, fs_events >>
    /\ UNCHANGED cvars

\* one iteration of the loop
ScanFile ==
    /\ last.op = "scanning"
    /\ last.scan_pos <= Len(files)
    /\ LET r == ScanOneFile(files, last.scan_pos,
                            re_compile(encode_utf8(last.pattern),
                                       ~ last.case_sensitive),
                            last.path_filter, last.max_results, last.results)
       IN last' = [last EXCEPT
                     !.results = r.results,
                     !.scan_pos = IF r.broke THEN Len(files) + 1 ELSE @ + 1]
    /\ UNCHANGED << disk, files, file_sizes, unlinked, clock, fs_events >>
    /\ UNCHANGED cvars

\* the loop is over: return results
ScanEnd ==
    /\ last.op = "scanning"
    /\ last.scan_pos > Len(files)
    /\ last' = [last EXCEPT !.op = "scanned"]
    /\ UNCHANGED << disk, files, file_sizes, unlinked, clock, fs_events >>
    /\ UNCHANGED cvars

\* Path.write_text by another process while the loop runs
FsWriteInScan(p, bytes) ==
    /\ last.op = "scanning"
    /\ fs_events < MaxFsEvents
    /\ disk' = [disk EXCEPT ![p] =
                  OnDisk(bytes, IF disk[p].exists THEN disk[p].readable ELSE TRUE)]
    /\ files' = IF StillMapped(p)
                THEN [i \in DOMAIN files |->
                        IF files[i][1] = p
                        THEN << p, MappedView(bytes, Len(files[i][2])) >>
                        ELSE files[i]]
                ELSE files
    /\ fs_events' = fs_events + 1
    /\ clock' = 0
    /\ last' = [last EXCEPT !.scan_disks = @ \cup {disk'}]
    /\ UNCHANGED << file_sizes, unlinked >>
    /\ UNCHANGED cvars

\* Path.unlink by another process while the loop runs
FsUnlinkInScan(p) ==
    /\ last.op = "scanning"
    /\ fs_events < MaxFsEvents
    /\ disk[p].exists
    /\ disk' = [disk EXCEPT ![p] = NoFile]
    /\ unlinked' = IF p \in Keys(files) THEN unlinked \cup {p} ELSE unlinked
    /\ fs_events' = fs_events + 1
    /\ clock' = 0
    /\ last' = [last EXCEPT !.scan_disks = @ \cup {disk'}]
    /\ UNCHANGED << files, file_sizes >>
    /\ UNCHANGED cvars

ScanReturn == last.op = "scanned" /\ Return

ScanNext ==
    \/ \E p \in WatchPatterns, cs \in BOOLEAN : ScanBegin(p, cs)
    \/ ScanFile
    \/ ScanEnd
    \/ \E p \in FileUniverse, bytes \in WriteContents : FsWriteInScan(p, bytes)
    \/ \E p \in FileUniverse : FsUnlinkInScan(p)
    \/ ScanReturn

ScanSpec == WatchInit /\ [][ScanNext]_vars


\* raise before anything is done: only the outcome changes
Raises(call, error) ==
    /\ c_out' = Outcome(call, error)
    /\ UNCHANGED << _allocated, request_socket, response_socket, c_pc, c_retry,
                    c_sent, sock_file, service_up, svc_inbox, svc_pending,
                    resp_chan, resp_eof >>
    /\ UNCHANGED cbvars

\* if self._allocated:  (alloc_pid)
AllocGuard == _allocated

\* (the check left out)
RipgrepGuard_Never == FALSE

\* if not self._allocated:  (ripgrep)
RipgrepGuard == ~ _allocated

\* alloc_pid, line 97: raise RuntimeError("PID already allocated ...")
alloc_pid_AlreadyAllocated ==
    /\ c_pc = "idle"
    /\ AllocGuard
    /\ Raises("alloc_pid", "RuntimeError: already allocated")

\* alloc_pid, line 102: raise ValueError("Repository path does not exist")
alloc_pid_NoSuchPath ==
    /\ c_pc = "idle"
    /\ ~ AllocGuard
    /\ Raises("alloc_pid", "ValueError: no such path")

\* alloc_pid -> _connect_request_socket: the socket object is stored before
\* connect, and connect raises when the service is not there
alloc_pid_ConnectFails ==
    /\ c_pc = "idle"
    /\ ~ AllocGuard
    /\ request_socket = "None"
    /\ ~ service_up
    /\ request_socket' = "unconnected"
    /\ c_out' = Outcome("alloc_pid", "RuntimeError: service not running")
    /\ UNCHANGED << _allocated, response_socket, c_pc, c_retry, c_sent, sock_file,
                    service_up, svc_inbox, svc_pending, resp_chan, resp_eof >>
    /\ UNCHANGED cbvars

\* alloc_pid with a request socket left unconnected by an earlier failure:
\* _connect_request_socket does nothing and sendall raises OSError
alloc_pid_SendFails ==
    /\ c_pc = "idle"
    /\ ~ AllocGuard
    /\ request_socket = "unconnected"
    /\ Raises("alloc_pid", "OSError: not connected")

\* alloc_pid up to and including sendall of the alloc_pid frame
alloc_pid_Send ==
    /\ c_pc = "idle"
    /\ ~ AllocGuard
    /\ c_sent < MaxFrames
    /\ (request_socket = "None" /\ service_up) \/ request_socket = "connected"
    /\ request_socket' = "connected"
    /\ svc_inbox' = Append(svc_inbox, "alloc_pid")
    /\ c_sent' = c_sent + 1
    /\ c_pc' = "setup"
    /\ c_out' = Outcome("alloc_pid", "pending")
    /\ UNCHANGED << _allocated, response_socket, c_retry, sock_file, service_up,
                    svc_pending, resp_chan, resp_eof >>
    /\ UNCHANGED cbvars

\* _setup_response_socket, lines 60-67: remove the file, make the socket
setup_RemoveOld ==
    /\ c_pc = "setup"
    /\ sock_file' = "absent"
    /\ response_socket' = "unconnected"
    /\ c_retry' = 0
    /\ c_pc' = "connect"
    /\ UNCHANGED << _allocated, request_socket, c_sent, c_out, service_up,
                    svc_inbox, svc_pending, resp_chan, resp_eof >>
    /\ UNCHANGED cbvars

\* _setup_response_socket, lines 73-76: connect succeeds
setup_Connected ==
    /\ c_pc = "connect"
    /\ sock_file = "listening"
    /\ response_socket' = "connected"
    /\ c_pc' = "recv_alloc"
    /\ UNCHANGED << _allocated, request_socket, c_retry, c_sent, c_out, sock_file,
                    service_up, svc_inbox, svc_pending, resp_chan, resp_eof >>
    /\ UNCHANGED cbvars

\* (the failed attempt not counted: a loop that retries until it connects)
setup_Retry_NoCount ==
    /\ c_pc = "connect"
    /\ sock_file # "listening"
    /\ UNCHANGED << _allocated, request_socket, response_socket, c_pc, c_retry,
                    c_sent, c_out, sock_file, service_up, svc_inbox,
                    svc_pending, resp_chan, resp_eof >>
    /\ UNCHANGED cbvars

\* lines 77-82: FileNotFoundError or ConnectionRefusedError, sleep and retry
setup_Retry ==
    /\ c_pc = "connect"
    /\ sock_file # "listening"
    /\ c_retry # max_retries - 1
    /\ c_retry' = c_retry + 1
    /\ UNCHANGED << _allocated, request_socket, response_socket, c_pc, c_sent,
                    c_out, sock_file, service_up, svc_inbox, svc_pending,
                    resp_chan, resp_eof >>
    /\ UNCHANGED cbvars

\* lines 78-81: the last attempt failed, raise RuntimeError
setup_GiveUp ==
    /\ c_pc = "connect"
    /\ sock_file # "listening"
    /\ c_retry = max_retries - 1
    /\ c_pc' = "idle"
    /\ c_out' = Outcome("alloc_pid", "RuntimeError: no response socket")
    /\ UNCHANGED << _allocated, request_socket, response_socket, c_retry, c_sent,
                    sock_file, service_up, svc_inbox, svc_pending, resp_chan,
                    resp_eof >>
    /\ UNCHANGED cbvars

\* (the client marked bound whatever the status of the response)
ReceiveFrame_BindsOnAnyStatus(call) ==
    /\ Len(resp_chan) > 0
    /\ resp_chan' = Tail(resp_chan)
    /\ c_pc' = "idle"
    /\ c_out' = Outcome(call, IF Head(resp_chan) = 1 THEN "ok"
                                ELSE "RuntimeError: status 0")
    /\ _allocated' = (IF call = "alloc_pid" THEN TRUE ELSE _allocated)
    /\ UNCHANGED << request_socket, response_socket, c_retry, c_sent, sock_file,
                    service_up, svc_inbox, svc_pending, resp_eof >>
    /\ UNCHANGED cbvars

\* _receive_response: a frame arrives
ReceiveFrame(call) ==
    /\ Len(resp_chan) > 0
    /\ resp_chan' = Tail(resp_chan)
    /\ c_pc' = "idle"
    /\ IF Head(resp_chan) = 1
       THEN /\ c_out' = Outcome(call, "ok")
            /\ _allocated' = (IF call = "alloc_pid" THEN TRUE ELSE _allocated)
       ELSE /\ c_out' = Outcome(call, "RuntimeError: status 0")
            /\ UNCHANGED _allocated
    /\ UNCHANGED << request_socket, response_socket, c_retry, c_sent, sock_file,
                    service_up, svc_inbox, svc_pending, resp_eof >>
    /\ UNCHANGED cbvars

\* _receive_response: recv returns b"", raise RuntimeError
ReceiveClosed(call) ==
    /\ Len(resp_chan) = 0
    /\ resp_eof
    /\ c_pc' = "idle"
    /\ c_out' = Outcome(call, "RuntimeError: connection closed")
    /\ UNCHANGED << _allocated, request_socket, response_socket, c_retry, c_sent,
                    sock_file, service_up, svc_inbox, svc_pending, resp_chan,
                    resp_eof >>
    /\ UNCHANGED cbvars

alloc_pid_Receive == c_pc = "recv_alloc" /\ ReceiveFrame("alloc_pid")
alloc_pid_Closed  == c_pc = "recv_alloc" /\ ReceiveClosed("alloc_pid")

\* ripgrep, line 145: raise RuntimeError("No codebase allocated ...")
ripgrep_NotAllocated ==
    /\ c_pc = "idle"
    /\ RipgrepGuard
    /\ Raises("ripgrep", "RuntimeError: no codebase allocated")

\* ripgrep up to and including sendall of the request_ripgrep frame
ripgrep_Send ==
    /\ c_pc = "idle"
    /\ ~ RipgrepGuard
    /\ c_sent < MaxFrames
    /\ svc_inbox' = Append(svc_inbox, "request_ripgrep")
    /\ c_sent' = c_sent + 1
    /\ c_pc' = "recv_ripgrep"
    /\ c_out' = Outcome("ripgrep", "pending")
    /\ UNCHANGED << _allocated, request_socket, response_socket, c_retry,
                    sock_file, service_up, svc_pending, resp_chan, resp_eof >>
    /\ UNCHANGED cbvars

ripgrep_Receive == c_pc = "recv_ripgrep" /\ ReceiveFrame("ripgrep")
ripgrep_Closed  == c_pc = "recv_ripgrep" /\ ReceiveClosed("ripgrep")

\* (close that leaves self._allocated as it is)
close_KeepsAllocated ==
    /\ c_pc = "idle"
    /\ request_socket' = "None"
    /\ response_socket' = "None"
    /\ sock_file' = "absent"
    /\ c_out' = Outcome("close", "ok")
    /\ svc_inbox' = << >>
    /\ svc_pending' = FALSE
    /\ resp_chan' = << >>
    /\ resp_eof' = FALSE
    /\ UNCHANGED << _allocated, c_pc, c_retry, c_sent, service_up >>
    /\ UNCHANGED cbvars

\* close(): both sockets closed and unset, the socket file removed; the
\* service sees the connections go and forgets the client
close ==
    /\ c_pc = "idle"
    /\ request_socket' = "None"
    /\ response_socket' = "None"
    /\ sock_file' = "absent"
    /\ _allocated' = FALSE
    /\ c_out' = Outcome("close", "ok")
    /\ svc_inbox' = << >>
    /\ svc_pending' = FALSE
    /\ resp_chan' = << >>
    /\ resp_eof' = FALSE
    /\ UNCHANGED << c_pc, c_retry, c_sent, service_up >>
    /\ UNCHANGED cbvars

(***************************************************************************)
(* The service, as far as the client can see it.                            *)
(***************************************************************************)
\* reads an alloc_pid frame and creates the response socket at the path
SvcAlloc ==
    /\ Len(svc_inbox) > 0
    /\ Head(svc_inbox) = "alloc_pid"
    /\ svc_inbox' = Tail(svc_inbox)
    /\ sock_file' = "listening"
    /\ svc_pending' = TRUE
    /\ UNCHANGED << _allocated, request_socket, response_socket, c_pc, c_retry,
                    c_sent, c_out, service_up, resp_chan, resp_eof >>
    /\ UNCHANGED cbvars

\* the client has connected back: answer the alloc_pid
SvcAllocRespond(status) ==
    /\ svc_pending
    /\ response_socket = "connected"
    /\ ~ resp_eof
    /\ svc_pending' = FALSE
    /\ resp_chan' = Append(resp_chan, status)
    /\ UNCHANGED << _allocated, request_socket, response_socket, c_pc, c_retry,
                    c_sent, c_out, sock_file, service_up, svc_inbox, resp_eof >>
    /\ UNCHANGED cbvars

\* reads a request_ripgrep frame and answers it
SvcRipgrep(status) ==
    /\ Len(svc_inbox) > 0
    /\ Head(svc_inbox) = "request_ripgrep"
    /\ ~ resp_eof
    /\ svc_inbox' = Tail(svc_inbox)
    /\ resp_chan' = Append(resp_chan, status)
    /\ UNCHANGED << _allocated, request_socket, response_socket, c_pc, c_retry,
                    c_sent, c_out, sock_file, service_up, svc_pending, resp_eof >>
    /\ UNCHANGED cbvars

\* closes the response connection while the client waits for a frame
SvcDrop ==
    /\ c_pc \in {"recv_alloc", "recv_ripgrep"}
    /\ ~ resp_eof
    /\ resp_eof' = TRUE
    /\ UNCHANGED << _allocated, request_socket, response_socket, c_pc, c_retry,
                    c_sent, c_out, sock_file, service_up, svc_inbox, svc_pending,
                    resp_chan >>
    /\ UNCHANGED cbvars

\* a codebase nobody searches: the client specification leaves it alone
NoTree == [p \in FileUniverse |-> NoFile]

ClientInit ==
    /\ Constructed(NoTree, << >>)
    /\ ClientConstructed
    /\ sock_file \in {"absent", "stale"}
    /\ service_up \in BOOLEAN

ClientNext ==
    \/ alloc_pid_AlreadyAllocated
    \/ alloc_pid_NoSuchPath
    \/ alloc_pid_ConnectFails
    \/ alloc_pid_SendFails
    \/ alloc_pid_Send
    \/ setup_RemoveOld
    \/ setup_Connected
    \/ setup_Retry
    \/ setup_GiveUp
    \/ alloc_pid_Receive
    \/ alloc_pid_Closed
    \/ ripgrep_NotAllocated
    \/ ripgrep_Send
    \/ ripgrep_Receive
    \/ ripgrep_Closed
    \/ close
    \/ SvcAlloc
    \/ \E status \in {0, 1} : SvcAllocRespond(status)
    \/ \E status \in {0, 1} : SvcRipgrep(status)
    \/ SvcDrop

ClientSpec == ClientInit /\ [][ClientNext]_vars

(***************************************************************************)
(* _receive_response byte by byte.  The service writes a response frame, a  *)
(* JSON object and one newline, to the response connection; recv(4096)      *)
(* returns whatever has arrived, at least one byte and at most its bufsize, *)
(* or b"" once the service has closed the connection and nothing is left.   *)
(* The frames of the model are                                              *)
(*     { <status digit> x...x } LF                                          *)
(* with 0..MaxPayload bytes "x" standing for the rest of the object, and    *)
(* RecvSize stands for the bufsize 4096: frames come shorter and longer     *)
(* than it.                                                                 *)
(***************************************************************************)
RecvSize == 4
MaxPayload == 2

Frame(status, n) ==
    << 123, 48 + status >> \o [i \in 1..n |-> 120] \o << 125, LF >>

Whitespace == { 9, LF, 11, 12, CR, 32 }

\* str.strip()
RECURSIVE strip(_)
strip(str) ==
    IF Len(str) > 0 /\ str[1] \in Whitespace THEN strip(Tail(str))
    ELSE IF Len(str) > 0 /\ str[Len(str)] \in Whitespace
    THEN strip(SubSeq(str, 1, Len(str) - 1))
    ELSE str

\* json.loads(buffer.decode().strip()) for the frames above: the object, or
\* error when decode or json.loads raises
json_loads(bytes) ==
    LET str == strip(bytes) IN
    IF /\ \A i \in DOMAIN bytes : bytes[i] < 128
       /\ Len(str) >= 3
       /\ str[1] = 123
       /\ str[2] \in {48, 49}
       /\ str[Len(str)] = 125
       /\ \A i \in 3..(Len(str) - 1) : str[i] = 120
    THEN [error |-> FALSE, response_status |-> str[2] - 48]
    ELSE [error |-> TRUE, response_status |-> 0]

\* buffer += chunk
Accumulate(buf, chunk) == buf \o chunk

\* if b"\n" in buffer: break
FrameArrived(buf) == \E i \in DOMAIN buf : buf[i] = LF

Receiving == c_pc \in {"recv_alloc", "recv_ripgrep"}

CallOf(pc) == IF pc = "recv_alloc" THEN "alloc_pid" ELSE "ripgrep"

\* chunk = self.response_socket.recv(4096); buffer += chunk
recv_Chunk(n) ==
    /\ Receiving
    /\ ~ FrameArrived(buffer)
    /\ n >= 1 /\ n <= Len(wire)
    /\ buffer' = Accumulate(buffer, SubSeq(wire, 1, n))
    /\ wire' = SubSeq(wire, n + 1, Len(wire))
    /\ UNCHANGED << _allocated, request_socket, response_socket, c_pc, c_retry,
                    c_sent, c_out, sock_file, service_up, svc_inbox, svc_pending,
                    resp_chan, resp_eof >>
    /\ UNCHANGED << disk, files, file_sizes, unlinked, clock, fs_events, last >>

\* recv returns b"": raise RuntimeError("Connection closed by service")
recv_Closed ==
    /\ Receiving
    /\ ~ FrameArrived(buffer)
    /\ Len(wire) = 0
    /\ resp_eof
    /\ c_pc' = "idle"
    /\ c_out' = Outcome(CallOf(c_pc), "RuntimeError: connection closed")
    /\ buffer' = << >>
    /\ UNCHANGED << _allocated, request_socket, response_socket, c_retry, c_sent,
                    sock_file, service_up, svc_inbox, svc_pending, resp_chan,
                    resp_eof, wire >>
    /\ UNCHANGED << disk, files, file_sizes, unlinked, clock, fs_events, last >>

\* the loop has broken: parse, and the caller looks at response_status
recv_Return ==
    LET response == json_loads(buffer) IN
    /\ Receiving
    /\ FrameArrived(buffer)
    /\ c_pc' = "idle"
    /\ buffer' = << >>
    /\ IF response.error
       THEN /\ c_out' = Outcome(CallOf(c_pc), "JSONDecodeError")
            /\ UNCHANGED _allocated
       ELSE IF response.response_status = 1
       THEN /\ c_out' = Outcome(CallOf(c_pc), "ok")
            /\ _allocated' = (IF c_pc = "recv_alloc" THEN TRUE ELSE _allocated)
       ELSE /\ c_out' = Outcome(CallOf(c_pc), "RuntimeError: status 0")
            /\ UNCHANGED _allocated
    /\ UNCHANGED << request_socket, response_socket, c_retry, c_sent, sock_file,
                    service_up, svc_inbox, svc_pending, resp_chan, resp_eof, wire >>
    /\ UNCHANGED << disk, files, file_sizes, unlinked, clock, fs_events, last >>

\* the service answers the alloc_pid: the bytes of one frame, or, when it
\* dies while writing, only the first k of them and the connection closed
SvcWriteAlloc(status, n, k) ==
    /\ k <= Len(Frame(status, n))
    /\ svc_pending
    /\ response_socket = "connected"
    /\ ~ resp_eof
    /\ svc_pending' = FALSE
    /\ wire' = wire \o SubSeq(Frame(status, n), 1, k)
    /\ resp_eof' = (k < Len(Frame(status, n)))
    /\ UNCHANGED << _allocated, request_socket, response_socket, c_pc, c_retry,
                    c_sent, c_out, sock_file, service_up, svc_inbox, resp_chan,
                    buffer >>
    /\ UNCHANGED << disk, files, file_sizes, unlinked, clock, fs_events, last >>

\* the service reads a request_ripgrep frame and answers it, likewise
SvcWriteRipgrep(status, n, k) ==
    /\ k <= Len(Frame(status, n))
    /\ Len(svc_inbox) > 0
    /\ Head(svc_inbox) = "request_ripgrep"
    /\ ~ resp_eof
    /\ svc_inbox' = Tail(svc_inbox)
    /\ wire' = wire \o SubSeq(Frame(status, n), 1, k)
    /\ resp_eof' = (k < Len(Frame(status, n)))
    /\ UNCHANGED << _allocated, request_socket, response_socket, c_pc, c_retry,
                    c_sent, c_out, sock_file, service_up, svc_pending, resp_chan,
                    buffer >>
    /\ UNCHANGED << disk, files, file_sizes, unlinked, clock, fs_events, last >>

RecvInit ==
    /\ Constructed(NoTree, << >>)
    /\ ClientConstructed
    /\ sock_file \in {"absent", "stale"}
    /\ service_up = TRUE

RecvNext ==
    \/ alloc_pid_Send
    \/ setup_RemoveOld
    \/ setup_Connected
    \/ setup_Retry
    \/ setup_GiveUp
    \/ ripgrep_Send
    \/ \E n \in 1..RecvSize : recv_Chunk(n)
    \/ recv_Closed
    \/ recv_Return
    \/ SvcAlloc
    \/ \E status \in {0, 1}, n \in 0..MaxPayload, k \in 0..(MaxPayload + 4) :
          SvcWriteAlloc(status, n, k)
    \/ \E status \in {0, 1}, n \in 0..MaxPayload, k \in 0..(MaxPayload + 4) :
          SvcWriteRipgrep(status, n, k)
    \/ SvcDrop

RecvSpec == RecvInit /\ [][RecvNext]_vars


(***************************************************************************)
(* What a search should find, stated from the bytes of the corpus alone.    *)
(***************************************************************************)
Compiles(pattern) == ~ re_compile(encode_utf8(pattern), FALSE).error

NewlinesOf(content) == { i \in 1..Len(content) : content[i] = LF }

\* position of the k-th LF of content; 0 for k = 0, Len + 1 past the last
NthNewline(content, k) ==
    IF k = 0 THEN 0
    ELSE IF k > Cardinality(NewlinesOf(content)) THEN Len(content) + 1
    ELSE CHOOSE i \in NewlinesOf(content) :
            Cardinality({ j \in NewlinesOf(content) : j < i }) = k - 1

PieceCount(content) == Cardinality(NewlinesOf(content)) + 1

\* the L-th piece of content split on LF
Piece(content, L) ==
    SubSeq(content, NthNewline(content, L - 1) + 1, NthNewline(content, L) - 1)

MatchingLineNumbers(content, pattern, case_sensitive) ==
    { L \in 1..PieceCount(content) :
        regex_search(re_compile(encode_utf8(pattern), ~ case_sensitive),
                     Piece(content, L)) }

\* the corpus entries a path_filter lets through
Searched(fs, path_filter) ==
    { i \in DOMAIN fs : ~ FilteredOut(path_filter, fs[i][1]) }

RECURSIVE SumOver(_, _)
SumOver(S, f) ==
    IF S = {} THEN 0
    ELSE LET x == CHOOSE y \in S : TRUE IN f[x] + SumOver(S \ {x}, f)

\* number of matching lines in the searched part of the corpus
TotalMatching(fs, pattern, path_filter, case_sensitive) ==
    IF ~ Compiles(pattern) THEN 0
    ELSE SumOver(Searched(fs, path_filter),
                 [i \in DOMAIN fs |->
                    Cardinality(MatchingLineNumbers(fs[i][2], pattern, case_sensitive))])

\* a < b for two strings, as Python compares them
StrLess(a, b) ==
    \E i \in 1..Len(b) :
        /\ i - 1 <= Len(a)
        /\ \A j \in 1..(i - 1) : a[j] = b[j]
        /\ (i > Len(a) \/ a[i] < b[i])

\* the text split into lines, and its lines that are not empty
LinesOf(text) == Split(text, LF)
NonEmptyLines(text) == SelectSeq(LinesOf(text), LAMBDA l : Len(l) > 0)

\* the path of a corpus file as it should be shown: below codebase_path
BelowRoot(filepath) == SubSeq(filepath, Len(codebase_path) + 2, Len(filepath))

ExpectedLine(m) ==
    BelowRoot(m[1]) \o << COLON >> \o Str(m[2]) \o << COLON >> \o m[3]

S_SummaryStart == << 45,45,45,32,70,111,117,110,100,32 >>     \* "--- Found "

\* the lines of a formatted text that report matches
ReportedLines(text) ==
    IF StartsWith(text, S_NoMatches) THEN << >>
    ELSE SubSeq(LinesOf(text), 1, Len(LinesOf(text)) - 1)

SummaryLine(text) == LinesOf(text)[Len(LinesOf(text))]

HasSummary(text) == StartsWith(SummaryLine(text), S_SummaryStart)

HasLimitedMarker(text) == Contains(SummaryLine(text), Tail(S_Limited))

(***************************************************************************)
(* Claims about grep and grep_formatted.                                    *)
(***************************************************************************)

\* C2: for every pattern that compiles, grep's matches are ordered by file
\* path ascending and, within a file, by line number ascending, and no
\* (path, line number) pair is reported twice.
C2_OrderedByPathThenLine ==
    (last.op = "grep" /\ Compiles(last.pattern)) =>
        \A i, j \in DOMAIN last.results :
            (i < j) =>
                \/ StrLess(last.results[i][1], last.results[j][1])
                \/ /\ last.results[i][1] = last.results[j][1]
                   /\ last.results[i][2] < last.results[j][2]

\* C3: grep never returns more than max_results matches.
C3_AtMostMaxResults ==
    (last.op = "grep") => Len(last.results) <= last.max_results

C3_Witness ==
    /\ last.op = "grep"
    /\ last.max_results > 0
    /\ Len(last.results) = last.max_results
    /\ TotalMatching(files, last.pattern, last.path_filter, last.case_sensitive)
          > last.max_results

\* C4: an untruncated, unfiltered search reports for each corpus file exactly
\* the 1-based indices of the pieces of its bytes, split on LF, that the
\* pattern matches; a last line without a newline has number (LF count) + 1.
C4_LineNumbersExact ==
    ( /\ last.op = "grep"
      /\ last.path_filter = None
      /\ Compiles(last.pattern)
      /\ TotalMatching(files, last.pattern, None, last.case_sensitive)
            <= last.max_results )
    =>
    /\ \A r \in DOMAIN last.results : last.results[r][1] \in Keys(files)
    /\ \A i \in DOMAIN files :
          { last.results[r][2] :
               r \in { q \in DOMAIN last.results : last.results[q][1] = files[i][1] } }
            = MatchingLineNumbers(files[i][2], last.pattern, last.case_sensitive)

C4_Witness ==
    /\ last.op = "grep"
    /\ last.path_filter = None
    /\ TotalMatching(files, last.pattern, None, last.case_sensitive)
          <= last.max_results
    /\ \E i \in DOMAIN files : \E r \in DOMAIN last.results :
          /\ files[i][2][Len(files[i][2])] # LF
          /\ last.results[r][1] = files[i][1]
          /\ last.results[r][2] = Cardinality(NewlinesOf(files[i][2])) + 1
          /\ last.results[r][2] > 1

\* C5: a search whose pattern does not compile ends in an error (status 0),
\* which tells it apart from a search that found nothing.
C5_InvalidPatternIsError ==
    (last.op \in {"grep_formatted", "ripgrep"} /\ ~ Compiles(last.pattern)) =>
        /\ last.status = 0
        /\ last.text # S_NoMatches \o last.pattern

\* C7: the text of a successful search request has exactly one non-empty
\* line per match, and none when nothing matched.
C7_OneLinePerMatch ==
    (last.op = "ripgrep" /\ last.status = 1) =>
        Len(NonEmptyLines(last.text))
          = Len(grep(files, last.pattern, None, last.max_results, TRUE))

\* C8: the summary line carries "(limited to first M)" exactly when the
\* corpus holds more matching lines than max_results.
C8_MarkerIffTruncated ==
    (last.op = "grep_formatted" /\ HasSummary(last.text)) =>
        ( HasLimitedMarker(last.text)
            <=> TotalMatching(files, last.pattern, last.path_filter, TRUE)
                  > last.max_results )

\* C9: the formatted search reports the matches of the raw grep called with
\* the request's case_sensitive flag.
C9_HonoursCaseFlag ==
    (last.op = "ripgrep") =>
        ReportedLines(last.text)
          = [i \in DOMAIN grep(files, last.pattern, None, last.max_results,
                               last.case_sensitive) |->
               ExpectedLine(grep(files, last.pattern, None, last.max_results,
                                 last.case_sensitive)[i])]

Indexable(d) ==
    { p \in Present(d) :
        /\ ~ PrunedFromWalk(p)
        /\ _is_text_file(p)
        /\ Len(d[p].bytes) > 0
        /\ d[p].readable }

\* C1: once the propagation window has passed since the last create, modify
\* or delete under the root, a search reports the lines of the tree as it
\* is: those of created and modified files, none of deleted ones.
C1_EditsVisibleAfterWindow ==
    (last.op = "ripgrep" /\ last.waited) =>
        { ReportedLines(last.text)[i] : i \in DOMAIN ReportedLines(last.text) }
          = UNION { { ExpectedLine(<< p, L, rstrip_crlf(decode_utf8_replace(
                                                  Piece(disk[p].bytes, L))) >>) :
                        L \in MatchingLineNumbers(disk[p].bytes, last.pattern, TRUE) } :
                    p \in Indexable(disk) }

\* C6: ripgrep on an unbound client and alloc_pid on a bound one each end
\* in an error, send no request frame, and leave the binding state and both
\* sockets as they were.
C6_WrongStateCallsRejected ==
    [][ ( /\ c_pc = "idle"
          /\ c_out' # c_out
          /\ \/ c_out'.call = "ripgrep" /\ ~ _allocated
             \/ c_out'.call = "alloc_pid" /\ _allocated )
        =>
        ( /\ c_out'.result \in { "RuntimeError: no codebase allocated",
                                 "RuntimeError: already allocated" }
          /\ c_pc' = "idle"
          /\ c_sent' = c_sent
          /\ svc_inbox' = svc_inbox
          /\ _allocated' = _allocated
          /\ request_socket' = request_socket
          /\ response_socket' = response_socket ) ]_vars

C6_Witness ==
    /\ c_out = Outcome("ripgrep", "RuntimeError: no codebase allocated")
    /\ ~ _allocated
    /\ request_socket = "connected"
    /\ response_socket = "connected"
    /\ c_sent > 0

(***************************************************************************)
(* Claims about the empty result and about what the corpus holds.           *)
(***************************************************************************)
NoMatchesText(pattern) == S_NoMatches \o pattern

\* C11 as first stated: grep_formatted returns exactly "No matches found
\* for pattern: <pattern>" if and only if no line of any searched corpus
\* file matches the pattern.
C11_NoMatchesIffNoLineMatches ==
    (last.op = "grep_formatted") =>
        ( last.text = NoMatchesText(last.pattern)
            <=> TotalMatching(files, last.pattern, last.path_filter, TRUE) = 0 )

\* C11, amended: grep_formatted returns exactly "No matches found for
\* pattern: <pattern>" if and only if no line of any searched corpus file
\* matches the pattern or max_results is 0 or less.
C11_NoMatchesIffEmptyResult ==
    (last.op = "grep_formatted") =>
        ( last.text = NoMatchesText(last.pattern)
            <=> \/ TotalMatching(files, last.pattern, last.path_filter, TRUE) = 0
                \/ last.max_results <= 0 )

C11_Witness ==
    /\ last.op = "grep_formatted"
    /\ last.max_results > 0
    /\ Compiles(last.pattern)
    /\ Searched(files, last.path_filter) # {}
    /\ last.text = NoMatchesText(last.pattern)

\* C12: at all times after construction, every path held in the corpus is
\* the path of a file that exists on disk and whose base name classifies as
\* an indexed text file.
C12_CorpusPathsExtantText ==
    \A p \in Keys(files) : disk[p].exists /\ _is_text_file(p)

\* the matches a search for last.pattern owes to file p of tree d
MatchesIn(d, p) ==
    IF ~ d[p].exists THEN {}
    ELSE { << p, L, rstrip_crlf(decode_utf8_replace(Piece(d[p].bytes, L))) >> :
             L \in MatchingLineNumbers(d[p].bytes, last.pattern,
                                       last.case_sensitive) }

\* C13: a search that overlaps edits of the tree completes and reports, for
\* each file, the lines of that file as it was before the edits or as it was
\* after one of them, never a mixture of the two.
C13_NoTornFile ==
    (last.op = "scanned") =>
        \A p \in Keys(files) :
            { last.results[r] :
                r \in { q \in DOMAIN last.results : last.results[q][1] = p } }
              \in { MatchesIn(d, p) : d \in last.scan_disks }

\* C15: construction completes whatever files fail: a file that cannot be
\* opened or mapped is the only one left out, and every other eligible
\* non-empty file under the root is mapped, wherever in the walk the failing
\* file comes.
C15_FailureSkipsOnlyThatFile ==
    (fs_events = 0) =>
        /\ Keys(files) = Indexable(disk)
        /\ Keys(file_sizes) = Keys(files)

C15_Witness ==
    /\ fs_events = 0
    /\ disk[P_b].exists
    /\ ~ disk[P_b].readable
    /\ P_b \notin Keys(files)
    /\ P_c \in Keys(files)

\* the number of lines the corpus holds: no search returns more matches
LineTotal(fs) == SumOver(DOMAIN fs, [i \in DOMAIN fs |-> PieceCount(fs[i][2])])

\* the result of the same search without a limit
Unlimited(fs, pattern, path_filter, case_sensitive) ==
    grep(fs, pattern, path_filter, LineTotal(fs) + 1, case_sensitive)

Prefix(s, k) == SubSeq(s, 1, IF k < Len(s) THEN k ELSE Len(s))

\* C16: grep with max_results = k returns the first k elements of the result
\* of the same search without a limit, or all of it when it has fewer than
\* k; so it returns exactly k matches when at least k lines match, and no
\* file after the one holding the k-th match contributes.
C16_LimitIsPrefix ==
    (last.op = "grep") =>
        last.results
          = Prefix(Unlimited(files, last.pattern, last.path_filter,
                             last.case_sensitive),
                   last.max_results)

C16_Witness ==
    LET all == Unlimited(files, last.pattern, last.path_filter,
                         last.case_sensitive)
    IN /\ last.op = "grep"
       /\ last.max_results = MaxResults
       /\ Len(last.results) = last.max_results
       /\ Len(all) > last.max_results
       /\ all[Len(all)][1] # last.results[Len(last.results)][1]

\* the bytes the corpus holds for a path
BytesOf(fs, p) == fs[CHOOSE i \in DOMAIN fs : fs[i][1] = p][2]

\* C17: every match is a match of the pattern within the bytes of one line:
\* the reported line is a line of the file that the pattern matches by
\* itself, its text holds no newline and ends in neither CR nor LF, and a
\* file none of whose lines matches contributes nothing, even when the
\* pattern would match its bytes across a line break.
C17_MatchesWithinOneLine ==
    (last.op = "grep" /\ Compiles(last.pattern)) =>
        LET regex == re_compile(encode_utf8(last.pattern), ~ last.case_sensitive)
        IN /\ \A r \in DOMAIN last.results :
                 LET p == last.results[r][1]
                     L == last.results[r][2]
                     t == last.results[r][3]
                 IN /\ p \in Keys(files)
                    /\ L \in 1..PieceCount(BytesOf(files, p))
                    /\ regex_search(regex, Piece(BytesOf(files, p), L))
                    /\ \A k \in DOMAIN t : t[k] # LF
                    /\ Len(t) > 0 => t[Len(t)] \notin {CR, LF}
           /\ \A i \in DOMAIN files :
                 (MatchingLineNumbers(files[i][2], last.pattern,
                                      last.case_sensitive) = {})
                   => \A r \in DOMAIN last.results :
                         last.results[r][1] # files[i][1]

C17_Witness ==
    /\ last.op = "grep"
    /\ \E r \in DOMAIN last.results :
          LET piece == Piece(BytesOf(files, last.results[r][1]), last.results[r][2])
          IN /\ Len(piece) > 0
             /\ piece[Len(piece)] = CR
             /\ last.results[r][3] = SubSeq(decode_utf8_replace(piece), 1,
                                            Len(piece) - 1)

(***************************************************************************)
(* Claims about close().                                                    *)
(***************************************************************************)
Closed ==
    /\ ~ _allocated
    /\ request_socket = "None"
    /\ response_socket = "None"
    /\ sock_file = "absent"

C19_NoEmptyFileMapped ==
    (fs_events = 0) =>
        /\ \A i \in DOMAIN file_sizes : file_sizes[i][2] > 0
        /\ \A i \in DOMAIN files :
              /\ Len(files[i][2]) > 0
              /\ Len(disk[files[i][1]].bytes) > 0
        /\ \A r \in DOMAIN last.results :
              Len(disk[last.results[r][1]].bytes) > 0

C19_Witness ==
    /\ fs_events = 0
    /\ \E p \in FileUniverse :
          /\ disk[p] = OnDisk(K_empty, TRUE)
          /\ _is_text_file(p)
          /\ ~ PrunedFromWalk(p)
          /\ p \notin Keys(files)
    /\ last.op = "grep"
    /\ last.pattern = P_empty
    /\ Len(last.results) > 0

\* C20: no path of the corpus has, between the root and the file, a
\* directory whose name is in the skipped set: nothing below a skipped
\* directory is mapped, at any depth.
C20_NothingBelowSkippedDir ==
    \A p \in Keys(files) :
        \A dirname \in DirsBelow(p, codebase_path) : dirname \notin skip_dirs

C20_Witness ==
    /\ \E dirname \in DirsBelow(P_d, codebase_path) : dirname \in skip_dirs
    /\ disk[P_d] = OnDisk(K_ab, TRUE)
    /\ _is_text_file(P_d)
    /\ P_d \notin Keys(files)
    /\ P_c \in Keys(files)

(***************************************************************************)
(* Claims about the handshake of alloc_pid.                                 *)
(***************************************************************************)
\* the service has read the alloc_pid frame of the call in progress, and so
\* has created the response socket for it
AllocFrameRead == \A i \in DOMAIN svc_inbox : svc_inbox[i] # "alloc_pid"

\* C21: with a service that creates the response socket when it reads the
\* alloc_pid request, the client never removes the socket file created for
\* the request in progress, and once that file is created the client's
\* connect does not run out of attempts: the removal of a stale file cannot
\* make the handshake fail.
C21_RemovalSparesServiceSocket ==
    [][ /\ (c_pc = "setup" /\ c_pc' = "connect")
           => ~ (AllocFrameRead /\ sock_file = "listening")
        /\ (c_pc = "connect" /\ c_pc' = "idle")
           => ~ AllocFrameRead ]_vars

(***************************************************************************)
(* The client as a running program: inside _setup_response_socket the loop  *)
(* goes on to its next step (connect returns or raises, sleep(0.1) ends).   *)
(***************************************************************************)
ClientLiveSpec ==
    /\ ClientInit
    /\ [][ClientNext]_vars
    /\ WF_vars(setup_Connected \/ setup_Retry \/ setup_GiveUp)

(***************************************************************************)
(* Claims about _receive_response.                                          *)
(***************************************************************************)
OneFrame(bytes) ==
    \E status \in {0, 1}, n \in 0..MaxPayload : bytes = Frame(status, n)

\* the result a call draws from a frame
ResultOf(bytes) ==
    IF bytes[2] = 49 THEN "ok" ELSE "RuntimeError: status 0"

\* the step is the end of a call that has sent its request and got a
\* response
AnsweredCallEnds ==
    /\ Receiving
    /\ c_pc' = "idle"
    /\ c_out'.result # "RuntimeError: connection closed"

\* C22: _receive_response returns the object of one newline-terminated
\* frame however the bytes arrive in recv chunks, also for frames longer
\* than the recv size, and raises RuntimeError when the connection closes
\* before a newline has arrived; each alloc_pid or ripgrep call that sends a
\* request and is answered consumes exactly one response frame.
C22_ReceivesExactlyOneFrame ==
    [][ /\ (Receiving /\ c_pc' = "idle" /\ FrameArrived(buffer))
           => c_out'.result \in {"ok", "RuntimeError: status 0"}
        /\ (Receiving /\ c_pc' = "idle" /\ ~ FrameArrived(buffer))
           => c_out'.result = "RuntimeError: connection closed"
        /\ AnsweredCallEnds
           => (OneFrame(buffer) /\ c_out'.result = ResultOf(buffer)) ]_vars

(***************************************************************************)
(* Claims about the bound state of the client.                              *)
(***************************************************************************)
\* the client is idle and its last operation was an alloc_pid
AfterAllocPid == c_pc = "idle" /\ c_out.call = "alloc_pid"

\* the alloc_pid was refused at line 97, before any step of the allocation
Refused == c_out.result = "RuntimeError: already allocated"

BothSocketsSet == request_socket = "connected" /\ response_socket = "connected"

\* _allocated changes only when an alloc_pid ends with a status-1 response
\* (to TRUE) or close() runs (to FALSE), and close() always leaves FALSE
BoundChangesOnlyByAllocAndClose ==
    /\ (~ _allocated /\ _allocated')
       => (c_pc' = "idle" /\ c_out' = Outcome("alloc_pid", "ok"))
    /\ (_allocated /\ ~ _allocated') => c_out' = Outcome("close", "ok")
    /\ (c_out' = Outcome("close", "ok") /\ c_out # c_out') => ~ _allocated'

\* C23: the client is bound exactly when its most recent alloc_pid received
\* a status-1 response and close() has not been called since; when bound,
\* both sockets are set; an alloc_pid that fails leaves the client unbound.
C23_BoundIffLastAllocSucceeded ==
    [][ /\ BoundChangesOnlyByAllocAndClose
        /\ _allocated' => BothSocketsSet'
        /\ AfterAllocPid' => (_allocated' <=> c_out'.result = "ok") ]_vars

\* C23 (amended): as above, for every alloc_pid that is not refused because
\* the client is already bound; a refused alloc_pid leaves the client as it
\* was, bound.
C23_BoundIffLastAttemptedAllocSucceeded ==
    [][ /\ BoundChangesOnlyByAllocAndClose
        /\ _allocated' => BothSocketsSet'
        /\ (AfterAllocPid' /\ ~ Refused')
           => (_allocated' <=> c_out'.result = "ok")
        /\ (AfterAllocPid' /\ Refused') => (_allocated /\ _allocated') ]_vars

\* an alloc_pid has failed on a missing response socket, a later one was
\* answered with status 1 and the client is bound with both sockets set
C23_Witness ==
    /\ AfterAllocPid
    /\ c_out.result = "ok"
    /\ _allocated
    /\ BothSocketsSet
    /\ c_sent = 2

(***************************************************************************)
(* Claims about the corpus tables under the read operations.                *)
(***************************************************************************)
\* the step is a call of grep, grep_formatted or get_stats
SearchStep ==
    /\ last.op = "none"
    /\ last'.op \in {"grep", "grep_formatted", "get_stats"}

\* C24: grep, grep_formatted and get_stats leave files and file_sizes as
\* they were, keys and values, whether the search succeeds, is cut at the
\* limit or has a pattern that does not compile; and files and file_sizes
\* have the same key set, before and after.
C24_SearchLeavesCorpus ==
    [][ /\ SearchStep => (files' = files /\ file_sizes' = file_sizes)
        /\ Keys(files) = Keys(file_sizes)
        /\ Keys(files') = Keys(file_sizes') ]_vars

\* a grep cut at its limit has returned, on a corpus that holds a file
\* while another file of the tree could not be mapped
C24_Witness ==
    /\ files # << >>
    /\ \E f \in DOMAIN disk : disk[f].exists /\ ~ disk[f].readable
    /\ last.op = "grep"
    /\ last.max_results > 0
    /\ Len(last.results) = last.max_results

(***************************************************************************)
(* Claims about the loop of _setup_response_socket.                         *)
(***************************************************************************)
\* C25: _setup_response_socket terminates: it makes at most 10 connection
\* attempts (c_retry counts the failed ones), leaves the loop at the first
\* attempt that succeeds, raises RuntimeError when the 10th attempt fails,
\* and every loop that is entered is left.
C25_SetupTerminates ==
    /\ [][ c_pc = "connect" =>
             /\ c_retry + 1 <= 10
             /\ (c_pc' = "recv_alloc")
                => (sock_file = "listening" /\ response_socket' = "connected")
             /\ (c_pc' = "idle")
                => /\ c_retry + 1 = 10
                   /\ sock_file # "listening"
                   /\ c_out' = Outcome("alloc_pid",
                                       "RuntimeError: no response socket")
             /\ (c_pc' = "connect" /\ c_retry' # c_retry)
                => (c_retry' = c_retry + 1 /\ sock_file # "listening")
             /\ c_pc' \in {"connect", "recv_alloc", "idle"} ]_vars
    /\ (c_pc = "connect") ~> (c_pc # "connect")

\* the 10th attempt has failed and alloc_pid has raised RuntimeError
C25_Witness ==
    /\ c_pc = "idle"
    /\ c_retry + 1 = 10
    /\ c_out = Outcome("alloc_pid", "RuntimeError: no response socket")

(***************************************************************************)
(* Claims about path_filter.                                                *)
(***************************************************************************)
\* the matches of a result that name a path containing the filter string
Restricted(results, filter) ==
    SelectSeq(results, LAMBDA match : Contains(match[1], filter))

\* a grep with a non-empty path_filter has returned
FilteredGrep ==
    /\ last.op = "grep"
    /\ last.path_filter # None
    /\ Len(last.path_filter[1]) > 0

\* C26: with a non-empty path_filter, every returned match names a path that
\* contains the filter, and the result is the result of the same search
\* without filter and without limit, restricted to the paths that contain
\* the filter and then cut to max_results: excluded files use none of the
\* limit.
C26_FilterRestrictsThenLimits ==
    FilteredGrep =>
        LET filter == last.path_filter[1]
            all    == Unlimited(files, last.pattern, None, last.case_sensitive)
        IN /\ \A r \in DOMAIN last.results :
                 Contains(last.results[r][1], filter)
           /\ last.results = Prefix(Restricted(all, filter), last.max_results)

\* the search without the filter finds its first matches in an excluded
\* file, and the filtered search still returns max_results matches
C26_Witness ==
    LET filter == last.path_filter[1]
        all    == Unlimited(files, last.pattern, None, last.case_sensitive)
    IN /\ FilteredGrep
       /\ last.max_results = MaxResults
       /\ Len(last.results) = last.max_results
       /\ Len(all) > MaxResults
       /\ \A r \in 1..MaxResults : ~ Contains(all[r][1], filter)

=============================================================================
